---- MODULE Spec2Model ----
(***************************************************************************)
(* A model of core/mapper.py: the Mapper that binds a widget property to a *)
(* model property.  The UI thread's call stack is explicit, so that the    *)
(* notification handlers can be re-entered from the setters they call.     *)
(***************************************************************************)
EXTENDS Integers, Sequences, FiniteSets, TLC

\* ------------------------------------------------------------- bounds
\* Widget and model values range over 0..MaxVal.
MaxVal == 2
\* Calls back into the mapper made by endpoint code during one operation.
MaxCallbacks == 1
\* Timer events of QTimer.singleShot waiting in the UI thread's event loop.
MaxQueue == 1
MaxPending == 2

\* ---------------------------------------------------------- constants
SUBMIT_POLICY_AUTO == 0
SUBMIT_POLICY_MANUAL == 1

None == "None"
Vals == 0..MaxVal
Widgets == {"w1", "w2"}
Props == {"p1", "p2"}
Signals == {"n1", "n2"}
UIThread == "ui"
Threads == {"ui", "worker"}

\* ---------------------------------------------------------- converter
\* A user converter between a widget scale and a model scale half as fine;
\* the widget clips what it is given to its range.
Half_widget_to_model(data) == data \div 2
Half_model_to_widget(data) == IF 2 * data > MaxVal THEN MaxVal ELSE 2 * data

widget_to_model(converter, data) ==
  IF converter = "Half" THEN Half_widget_to_model(data) ELSE data

model_to_widget(converter, data) ==
  IF converter = "Half" THEN Half_model_to_widget(data) ELSE data

ToModel_swapped(b, value) ==
  IF b.converter # None THEN model_to_widget(b.converter, value) ELSE value

\* "convert it if requested", widget to model
ToModel(b, value) ==
  IF b.converter # None THEN widget_to_model(b.converter, value) ELSE value

ToWidget_swapped(b, value) ==
  IF b.converter # None THEN widget_to_model(b.converter, value) ELSE value

\* "convert value if requested", model to widget
ToWidget(b, value) ==
  IF b.converter # None THEN model_to_widget(b.converter, value) ELSE value

\* ------------------------------------------------------------- inputs
\* The widgets add_mapping is called for: the two whose values the model
\* follows, a line edit and a combo box, and others that never get a
\* mapping here.
OtherWidgets == {"button", "spin", "dspin", "slider", "label"}

\* The classes a widget is an instance of.
Bases(w) ==
  CASE w = "w1" -> {"QLineEdit", "QWidget"}
    [] w = "w2" -> {"QComboBox", "QWidget"}
    [] w = "button" -> {"QPushButton", "QAbstractButton", "QWidget"}
    [] w = "spin" -> {"QSpinBox", "QAbstractSpinBox", "QWidget"}
    [] w = "dspin" -> {"QDoubleSpinBox", "QAbstractSpinBox", "QWidget"}
    [] w = "slider" -> {"QSlider", "QAbstractSlider", "QWidget"}
    [] OTHER -> {"QLabel", "QFrame", "QWidget"}

\* What widget.metaObject() answers for a property name: indexOfProperty
\* is not -1, and the meta property's hasNotifySignal, isReadable, isWritable.
MetaProperty(f, n, r, w) ==
  [found |-> f, hasNotifySignal |-> n, isReadable |-> r, isWritable |-> w]
GoodMeta == MetaProperty(TRUE, TRUE, TRUE, TRUE)
BadMetas ==
  {MetaProperty(FALSE, FALSE, FALSE, FALSE)}
  \cup ({MetaProperty(TRUE, n, r, w): n, r, w \in BOOLEAN} \ {GoodMeta})

\* The add_mapping calls of the environment: widget, model property (the
\* getter and setter of one attribute), its change signal or None, converter;
\* the widget property is guessed and is a full Qt property, the model
\* attribute is a property with a setter and no model_setter is given.
Config(p, n, c) ==
  [model |-> p, model_property_notifier |-> n, converter |-> c,
   widget_property_name |-> "", meta |-> GoodMeta,
   attr |-> "property", model_setter |-> None]
AddCalls ==
  { <<"w1", Config("p1", "n1", None)>>,
    <<"w1", [Config("p1", None, "Half") EXCEPT !.widget_property_name = "windowTitle"]>>,
    <<"w2", Config("p2", "n2", "Half")>>,
    <<"w2", Config("p2", "n1", None)>>,
    <<"w2", Config("p1", "n1", "Half")>> }

\* Calls of add_mapping with and without a model_setter of its own, for a
\* model property with and without setter.
SetterAddCalls ==
  { <<"w1", Config("p1", "n1", None)>>,
    <<"w1", [Config("p1", "n1", None) EXCEPT !.model_setter = "explicit"]>>,
    <<"w2", [Config("p2", "n2", "Half") EXCEPT !.attr = "readonly",
                                              !.model_setter = "explicit"]>> }

\* Calls of add_mapping that fail: a named widget property that is missing
\* or lacks a notify signal, a reader or a writer; a widget of each other
\* class with a model attribute that does not exist; a model property
\* without setter and no model_setter; a model_setter that is not callable.
BadAddCalls ==
  {<<w, [Config("p1", "n1", None) EXCEPT !.widget_property_name = "prop",
                                        !.meta = m]>>:
     w \in {"w1", "label"}, m \in BadMetas}
  \cup {<<w, [Config("p1", None, None) EXCEPT !.attr = None]>>:
          w \in OtherWidgets \cup {"w2"}}
  \cup {<<w, [Config("p2", "n2", None) EXCEPT !.attr = "readonly"]>>:
          w \in {"w1", "w2"}}
  \cup {<<"w2", [Config("p2", "n2", None) EXCEPT !.model_setter = "notcallable"]>>}

\* Calls of add_mapping with a callable as model_getter and no model_setter,
\* and one with the name of a property.
GetterAddCalls ==
  { <<"w1", [Config("p1", "n1", None) EXCEPT !.attr = "callable"]>>,
    <<"w2", [Config("p2", "n2", "Half") EXCEPT !.attr = "callable"]>>,
    <<"w2", Config("p2", "n2", "Half")>> }

\* Calls of add_mapping whose model_property_notifier names an attribute the
\* model does not have, or one that is not a signal (it has no connect).
NotifierAddCalls ==
  {<<w, Config("p1", s, None)>>: w \in Widgets, s \in {"missing", "notSignal"}}

\* The signal a model property's setter emits when it emits one.
SignalOf(p) == IF p = "p1" THEN "n1" ELSE "n2"
\* A model setter that limits what it stores.
Clamp(v) == IF v > MaxVal - 1 THEN MaxVal - 1 ELSE v

VARIABLES
  mappings,       \* self._mappings: widget -> mapping, DOMAIN = mapped widgets
  keys,           \* insertion order of the keys of self._mappings
  submit_policy,  \* self._submit_policy
  wsubs,          \* widgets whose notify signal is connected to the mapper
  msubs,          \* <<signal, widget>>: model signals connected to the mapper
  dval,           \* the widgets' property values
  mval,           \* the model properties' values
  stack,          \* the UI thread's call stack, innermost frame last
  exc,            \* an exception is propagating (stack empty: it reached the caller)
  queue,          \* zero-delay timers waiting in the UI thread's event loop
  cbLeft,         \* callbacks endpoint code may still make in this operation
  ev,             \* the operation the UI thread runs or ran last
  log             \* the endpoint calls of that operation, in order

vars == <<mappings, keys, submit_policy, wsubs, msubs, dval, mval, stack, exc,
          queue, cbLeft, ev, log>>

Frame(k, w, pc) ==
  [k |-> k, w |-> w, pc |-> pc, v |-> 0, i |-> 0, n |-> 0, saved |-> 0,
   sig |-> None, th |-> UIThread]

\* An operation, with the policy it started under and, for an edit or a
\* submit, the widget values d0 the handlers found.
Event(op, w, th, d0) ==
  [op |-> op, w |-> w, th |-> th, pol |-> submit_policy, d0 |-> d0]

NoValues == [x \in Widgets |-> 0]

\* The event loop is between two calls.
NoEvent ==
  [op |-> "idle", w |-> None, th |-> UIThread, pol |-> SUBMIT_POLICY_AUTO,
   d0 |-> [x \in Widgets |-> 0]]

\* A log entry: an endpoint call ("mset", "dset") by widget w's mapping with
\* value v and result r (what the setter stored; Raised when it raised), a
\* handler's early return ("ignored", "skip"), or an "error" leaving a slot.
Raised == MaxVal + 1
Entry(k, w, v, r) == [k |-> k, w |-> w, v |-> v, r |-> r]

\* The entry of a model setter call: which callable the mapping called,
\* and whether the setter's signal ran slots of the mapper.
SetterEntry(w, v, r, s) ==
  [k |-> "mset", w |-> w, v |-> v, r |-> r, setter |-> s, emit |-> FALSE]

Top == stack[Len(stack)]
Pop == SubSeq(stack, 1, Len(stack) - 1)
Idle == stack = <<>>

Mapped(w) == w \in DOMAIN mappings

Init ==
  /\ mappings = <<>>
  /\ keys = <<>>
  /\ submit_policy = SUBMIT_POLICY_AUTO
  /\ wsubs = {}
  /\ msubs = {}
  /\ dval \in [Widgets -> Vals]
  /\ mval \in [Props -> Vals]
  /\ stack = <<>>
  /\ exc = FALSE
  /\ queue = <<>>
  /\ cbLeft = MaxCallbacks
  /\ ev = NoEvent
  /\ log = <<>>

\* ------------------------------------------------------------ helpers
WFrame(w, sig) == [Frame("W", w, "start") EXCEPT !.sig = sig]
MFrame(w, sig) == [Frame("M", w, "start") EXCEPT !.sig = sig]
SetterFrame(k, w, v) == [Frame(k, w, "cb") EXCEPT !.v = v]

\* The mapper's slots connected to signal n, in connection order, as the
\* frames a synchronous emission runs, the first slot innermost (last).
EmitFrames_all(n) == [j \in 1..Len(keys) |-> MFrame(keys[Len(keys) + 1 - j], None)]

EmitFrames(n) ==
  LET subs == SelectSeq(keys, LAMBDA x: <<n, x>> \in msubs)
  IN  [j \in 1..Len(subs) |-> MFrame(subs[Len(subs) + 1 - j], n)]

\* A mapping's two flags as one number, for the log.
FlagCode(m, w) ==
  IF w \in DOMAIN m
  THEN (IF m[w].widget_property_notifications_disabled THEN 1 ELSE 0)
       + (IF m[w].model_property_notifications_disabled THEN 2 ELSE 0)
  ELSE 0

Leave_reported(f, raising, m) ==
  /\ stack' = Pop
  /\ exc' = FALSE
  /\ log' = IF raising
            THEN Append(log, Entry("error", f.w, FlagCode(m, f.w), 0))
            ELSE log

\* Frame f ends (raising or not) with the mappings being m: a slot's
\* exception does not pass through the signal that called it, it is
\* reported there; a direct call's exception goes to its caller.
Leave(f, raising, m) ==
  /\ stack' = Pop
  /\ exc' = (raising /\ f.sig = None)
  /\ log' = IF raising /\ f.sig # None
            THEN Append(log, Entry("error", f.w, FlagCode(m, f.w), 0))
            ELSE log

IsMainThread_always(th) == TRUE

IsMainThread_never(th) == FALSE

\* QThread.currentThread() == QCoreApplication.instance().thread()
IsMainThread(th) == th = UIThread

SubmitFrame(th) ==
  [Frame("submit", None, "loop") EXCEPT !.saved = submit_policy, !.i = 1,
                                        !.n = Len(keys), !.th = th]
\* v: the length of the log when revert() started.
RevertFrame(th) ==
  [Frame("revert", None, "loop") EXCEPT !.i = 1, !.n = Len(keys), !.th = th,
                                        !.v = Len(log)]

WidgetNotificationsDisabled_never(w) == FALSE

\* "if self._mappings[widget]['widget_property_notifications_disabled']"
WidgetNotificationsDisabled(w) ==
  mappings[w].widget_property_notifications_disabled

IsAuto_always == TRUE
IsAuto_stored == ev.pol = SUBMIT_POLICY_AUTO

\* "if self._submit_policy == SUBMIT_POLICY_AUTO"
IsAuto == submit_policy = SUBMIT_POLICY_AUTO

NothingChanged_never(w) == FALSE
NothingChanged_underManual(w) ==
  \/ submit_policy = SUBMIT_POLICY_MANUAL
  \/ /\ mappings[w].model_property_notifications_disabled
     /\ mval[mappings[w].model] = ToModel(mappings[w], dval[w])
NothingChanged_flagOnly(w) == mappings[w].model_property_notifications_disabled

\* "are updates disabled?" and "stop if nothing has changed"
NothingChanged(w) ==
  /\ mappings[w].model_property_notifications_disabled
  /\ mval[mappings[w].model] = ToModel(mappings[w], dval[w])

FinallyFlag_onSuccessOnly(raising) == raising

\* The flag a handler set, after the handler's finally clause.
FinallyFlag(raising) == FALSE

SubmitFinally_onSuccessOnly(f, raising) ==
  IF raising THEN submit_policy ELSE f.saved

\* The policy submit()'s finally clause sets, whether its loop raised or not.
SubmitFinally(f, raising) == f.saved

\* -------------------------------------------------- widget -> model
SetterCallable_always(b) == TRUE

\* "self._mappings[widget]['model_property_setter'](value)": calling None
\* raises TypeError.
SetterCallable(b) == b.model_property_setter # None

\* _on_widget_property_notification up to the call of the model setter,
\* and the setter's own body: it raises, or stores (what it is given, or
\* that clamped) and then emits its change signal or not.
OnWidgetNotification ==
  /\ stack # <<>> /\ ~exc /\ Top.k = "W" /\ Top.pc = "start"
  /\ LET f == Top
         w == f.w
     IN  IF ~Mapped(w)
         THEN /\ Leave(f, TRUE, mappings)
              /\ UNCHANGED <<mappings, mval>>
         ELSE IF WidgetNotificationsDisabled(w)
         THEN /\ stack' = Pop
              /\ log' = Append(log, Entry("ignored", w, dval[w], 0))
              /\ UNCHANGED <<mappings, mval, exc>>
         ELSE IF IsAuto
         THEN LET b == mappings[w]
                  value == ToModel(b, dval[w])
                  fin == [f EXCEPT !.pc = "finally"]
              IN  /\ mappings' = [mappings EXCEPT
                        ![w].model_property_notifications_disabled = TRUE]
                  /\ \/ /\ exc' = TRUE
                        /\ log' = Append(log, SetterEntry(w, value, Raised,
                                                          b.model_property_setter))
                        /\ stack' = Append(Pop, fin)
                        /\ UNCHANGED mval
                     \/ \E stored \in {value, Clamp(value)}, emit \in BOOLEAN:
                        /\ SetterCallable(b)
                        /\ mval' = [mval EXCEPT ![b.model] = stored]
                        /\ log' = Append(log,
                             [SetterEntry(w, value, stored, b.model_property_setter)
                                EXCEPT !.emit = emit /\ EmitFrames(SignalOf(b.model)) # <<>>])
                        /\ stack' = Pop \o <<fin, SetterFrame("mset", w, value)>>
                                    \o (IF emit THEN EmitFrames(SignalOf(b.model))
                                        ELSE <<>>)
                        /\ UNCHANGED exc
         ELSE /\ stack' = Pop
              /\ UNCHANGED <<mappings, mval, exc, log>>
  /\ UNCHANGED <<keys, submit_policy, wsubs, msubs, dval, queue, cbLeft, ev>>

\* The finally clause of _on_widget_property_notification.
OnWidgetFinally ==
  /\ stack # <<>> /\ Top.k = "W" /\ Top.pc = "finally"
  /\ LET f == Top
         m == [mappings EXCEPT
                 ![f.w].model_property_notifications_disabled = FinallyFlag(exc)]
     IN  IF Mapped(f.w)
         THEN mappings' = m /\ Leave(f, exc, m)
         ELSE UNCHANGED mappings /\ Leave(f, TRUE, mappings)
  /\ UNCHANGED <<keys, submit_policy, wsubs, msubs, dval, mval, queue, cbLeft, ev>>

\* -------------------------------------------------- model -> widget
ModelValue_payload(f, b) == f.v

\* "get value from model": the getter's value when the handler runs, not
\* the signal's arguments.
ModelValue(f, b) == mval[b.model]

\* _on_model_notification up to the call of the widget setter, and the
\* setter's body: it raises, or stores and, the value having changed,
\* emits the widget's notify signal.
OnModelNotification ==
  /\ stack # <<>> /\ ~exc /\ Top.k = "M" /\ Top.pc = "start"
  /\ LET f == Top
         w == f.w
     IN  IF f.sig # None /\ <<f.sig, w>> \notin msubs
         THEN /\ stack' = Pop
              /\ UNCHANGED <<mappings, dval, exc, log>>
         ELSE IF ~Mapped(w)
         THEN /\ Leave(f, TRUE, mappings)
              /\ UNCHANGED <<mappings, dval>>
         ELSE LET b == mappings[w]
                  value == ModelValue(f, b)
                  fin == [f EXCEPT !.pc = "finally"]
              IN  IF NothingChanged(w)
                  THEN /\ stack' = Pop
                       /\ log' = Append(log, Entry("skip", w, value, 0))
                       /\ UNCHANGED <<mappings, dval, exc>>
                  ELSE /\ mappings' = [mappings EXCEPT
                             ![w].widget_property_notifications_disabled = TRUE]
                       /\ \/ /\ exc' = TRUE
                             /\ log' = Append(log, Entry("dset", w, ToWidget(b, value), Raised))
                             /\ stack' = Append(Pop, fin)
                             /\ UNCHANGED dval
                          \/ /\ dval' = [dval EXCEPT ![w] = ToWidget(b, value)]
                             /\ log' = Append(log, Entry("dset", w, ToWidget(b, value),
                                                         ToWidget(b, value)))
                             /\ stack' = Pop
                                  \o <<fin, SetterFrame("dset", w, ToWidget(b, value))>>
                                  \o (IF ToWidget(b, value) # dval[w] /\ w \in wsubs
                                      THEN <<WFrame(w, "notify")>> ELSE <<>>)
                             /\ UNCHANGED exc
  /\ UNCHANGED <<keys, submit_policy, wsubs, msubs, mval, queue, cbLeft, ev>>

\* The finally clause of _on_model_notification.
OnModelFinally ==
  /\ stack # <<>> /\ Top.k = "M" /\ Top.pc = "finally"
  /\ LET f == Top
         m == [mappings EXCEPT
                 ![f.w].widget_property_notifications_disabled = FinallyFlag(exc)]
     IN  IF Mapped(f.w)
         THEN mappings' = m /\ Leave(f, exc, m)
         ELSE UNCHANGED mappings /\ Leave(f, TRUE, mappings)
  /\ UNCHANGED <<keys, submit_policy, wsubs, msubs, dval, mval, queue, cbLeft, ev>>

\* ----------------------------------------------------- submit, revert
\* submit() as called by thread th with the stack being s: off the main
\* thread it leaves a zero-delay timer and returns.
submit(th, s) ==
  IF ~IsMainThread(th)
  THEN /\ Len(queue) < MaxQueue
       /\ queue' = Append(queue, "submit")
       /\ UNCHANGED <<submit_policy, stack>>
  ELSE /\ submit_policy' = SUBMIT_POLICY_AUTO
       /\ stack' = Append(s, SubmitFrame(th))
       /\ UNCHANGED queue

\* revert() as called by thread th with the stack being s.
revert(th, s) ==
  IF ~IsMainThread(th)
  THEN /\ Len(queue) < MaxQueue
       /\ queue' = Append(queue, "revert")
       /\ UNCHANGED <<submit_policy, stack>>
  ELSE /\ stack' = Append(s, RevertFrame(th))
       /\ UNCHANGED <<queue, submit_policy>>

\* One turn of submit's loop over self._mappings, or the loop's end and
\* the finally clause; the dict's iterator raises when the dict's size
\* has changed under it.
SubmitLoop ==
  /\ stack # <<>> /\ Top.k = "submit"
  /\ LET f == Top
     IN  IF exc
         THEN /\ submit_policy' = SubmitFinally(f, TRUE)
              /\ stack' = Pop
              /\ UNCHANGED exc
         ELSE IF Len(keys) # f.n
         THEN /\ exc' = TRUE
              /\ UNCHANGED <<submit_policy, stack>>
         ELSE IF f.i > Len(keys)
         THEN /\ submit_policy' = SubmitFinally(f, FALSE)
              /\ stack' = Pop
              /\ UNCHANGED exc
         ELSE /\ stack' = Pop \o <<[f EXCEPT !.i = f.i + 1], WFrame(keys[f.i], None)>>
              /\ UNCHANGED <<submit_policy, exc>>
  /\ UNCHANGED <<mappings, keys, wsubs, msubs, dval, mval, queue, cbLeft, ev, log>>

\* One turn of revert's loop over self._mappings, or its end.
RevertLoop ==
  /\ stack # <<>> /\ Top.k = "revert"
  /\ LET f == Top
     IN  IF exc
         THEN /\ stack' = Pop
              /\ UNCHANGED exc
         ELSE IF Len(keys) # f.n
         THEN /\ exc' = TRUE
              /\ UNCHANGED stack
         ELSE IF f.i > Len(keys)
         THEN /\ stack' = Pop
              /\ UNCHANGED exc
         ELSE /\ stack' = Pop \o <<[f EXCEPT !.i = f.i + 1], MFrame(keys[f.i], None)>>
              /\ UNCHANGED exc
  /\ UNCHANGED <<mappings, keys, submit_policy, wsubs, msubs, dval, mval, queue,
                 cbLeft, ev, log>>

\* ------------------------------------------------ endpoint code
\* A model or widget setter (or a slot its signal runs) after its store:
\* it returns, or the exception of a call it made into the mapper passes
\* through it.
SetterReturn ==
  /\ stack # <<>> /\ Top.k \in {"mset", "dset"}
  /\ stack' = Pop
  /\ UNCHANGED <<mappings, keys, submit_policy, wsubs, msubs, dval, mval, exc,
                 queue, cbLeft, ev, log>>

\* Endpoint code calls back into the mapper, on the UI thread.
SetterCallback(op) ==
  /\ stack # <<>> /\ ~exc /\ Top.k \in {"mset", "dset"}
  /\ cbLeft > 0
  /\ cbLeft' = cbLeft - 1
  /\ log' = Append(log, Entry(op, Top.w, Len(stack), 0))
  /\ IF op = "submit" THEN submit(UIThread, stack) ELSE revert(UIThread, stack)
  /\ UNCHANGED <<mappings, keys, wsubs, msubs, dval, mval, exc, ev>>

\* Endpoint code, while a setter of widget w's mapping runs, changes the
\* widget's value, whose notify signal fires.
SetterEdit(v) ==
  /\ stack # <<>> /\ ~exc /\ Top.k \in {"mset", "dset"}
  /\ cbLeft > 0
  /\ cbLeft' = cbLeft - 1
  /\ v # dval[Top.w]
  /\ dval' = [dval EXCEPT ![Top.w] = v]
  /\ log' = Append(log, Entry("edit", Top.w, v, 0))
  /\ stack' = IF Top.w \in wsubs THEN Append(stack, WFrame(Top.w, "notify"))
               ELSE stack
  /\ UNCHANGED <<mappings, keys, submit_policy, wsubs, msubs, mval, exc, queue, ev>>

\* Endpoint code, while a setter of widget w's mapping runs, emits the
\* mapping's model signal again.
SetterNotify ==
  /\ stack # <<>> /\ ~exc /\ Top.k \in {"mset", "dset"}
  /\ cbLeft > 0
  /\ cbLeft' = cbLeft - 1
  /\ Mapped(Top.w)
  /\ mappings[Top.w].model_property_notifier # None
  /\ log' = Append(log, Entry("emit", Top.w, 0, 0))
  /\ stack' = stack \o EmitFrames(mappings[Top.w].model_property_notifier)
  /\ UNCHANGED <<mappings, keys, submit_policy, wsubs, msubs, dval, mval, exc,
                 queue, ev>>

\* ---------------------------------------------- calls of the interface
\* What every call from the event loop resets, the log starting as l.
BeginLog(op, w, th, d0, l) ==
  /\ Idle /\ ev = NoEvent
  /\ ev' = Event(op, w, th, d0)
  /\ log' = l
  /\ cbLeft' = MaxCallbacks

Begin(op, w, th, d0) == BeginLog(op, w, th, d0, <<>>)

\* The user (or other code) changes a widget's value; its notify signal fires.
UserEdit(w, v) ==
  /\ Begin("edit", w, UIThread, [dval EXCEPT ![w] = v])
  /\ v # dval[w]
  /\ dval' = [dval EXCEPT ![w] = v]
  /\ stack' = IF w \in wsubs THEN <<WFrame(w, "notify")>> ELSE <<>>
  /\ exc' = FALSE
  /\ UNCHANGED <<mappings, keys, submit_policy, wsubs, msubs, mval, queue>>

\* The model's value changes without the mapper.
ModelWrite(p, v) ==
  /\ Begin("write", p, UIThread, NoValues)
  /\ v # mval[p]
  /\ mval' = [mval EXCEPT ![p] = v]
  /\ exc' = FALSE
  /\ UNCHANGED <<mappings, keys, submit_policy, wsubs, msubs, dval, stack, queue>>

\* A model's change signal is delivered: with its write, later, or again.
ModelNotify(n) ==
  /\ Begin("notify", n, UIThread, NoValues)
  /\ EmitFrames(n) # <<>>
  /\ stack' = EmitFrames(n)
  /\ exc' = FALSE
  /\ UNCHANGED <<mappings, keys, submit_policy, wsubs, msubs, dval, mval, queue>>

\* Another thread sets a model property; the property's signal, carrying
\* the new value, waits in the UI thread's event loop.
ModelEmit(p, v) ==
  /\ v # mval[p]
  /\ Len(queue) < MaxPending
  /\ mval' = [mval EXCEPT ![p] = v]
  /\ queue' = Append(queue, [sig |-> SignalOf(p), payload |-> v])
  /\ UNCHANGED <<mappings, keys, submit_policy, wsubs, msubs, dval, stack, exc,
                 cbLeft, ev, log>>

\* The event loop delivers one of the waiting signals to the slots
\* connected to it, in whatever order the threads' signals arrive.
Deliver(i) ==
  /\ i \in 1..Len(queue)
  /\ BeginLog("deliver", queue[i].sig, UIThread, NoValues,
              <<Entry("deliver", queue[i].sig, queue[i].payload, 0)>>)
  /\ queue' = SubSeq(queue, 1, i - 1) \o SubSeq(queue, i + 1, Len(queue))
  /\ stack' = [j \in 1..Len(EmitFrames(queue[i].sig)) |->
                 [EmitFrames(queue[i].sig)[j] EXCEPT !.v = queue[i].payload]]
  /\ exc' = FALSE
  /\ UNCHANGED <<mappings, keys, submit_policy, wsubs, msubs, dval, mval>>

\* The UI thread calls submit() or revert() from its event loop.
CallSubmit ==
  /\ Begin("submit", None, UIThread, dval)
  /\ submit(UIThread, <<>>)
  /\ exc' = FALSE
  /\ UNCHANGED <<mappings, keys, wsubs, msubs, dval, mval>>

CallRevert ==
  /\ Begin("revert", None, UIThread, NoValues)
  /\ revert(UIThread, <<>>)
  /\ exc' = FALSE
  /\ UNCHANGED <<mappings, keys, wsubs, msubs, dval, mval>>

\* Another thread calls submit() or revert(), whatever the UI thread does.
OffThreadCall(op, th) ==
  /\ th # UIThread
  /\ IF op = "submit" THEN submit(th, stack) ELSE revert(th, stack)
  /\ UNCHANGED <<mappings, keys, wsubs, msubs, dval, mval, exc, cbLeft, ev, log>>

\* The event loop runs the oldest timer's slot.
TimerFire ==
  /\ queue # <<>>
  /\ Begin(Head(queue), None, UIThread, IF Head(queue) = "submit" THEN dval ELSE NoValues)
  /\ LET op == Head(queue)
     IN  IF IsMainThread(UIThread)
         THEN /\ queue' = Tail(queue)
              /\ IF op = "submit"
                 THEN /\ submit_policy' = SUBMIT_POLICY_AUTO
                      /\ stack' = <<SubmitFrame(UIThread)>>
                 ELSE /\ stack' = <<RevertFrame(UIThread)>>
                      /\ UNCHANGED submit_policy
         ELSE /\ queue' = Append(Tail(queue), op)
              /\ UNCHANGED <<submit_policy, stack>>
  /\ exc' = FALSE
  /\ UNCHANGED <<mappings, keys, wsubs, msubs, dval, mval>>

\* The submit_policy setter.
ValidPolicy_any(policy) == TRUE

\* "policy not in [SUBMIT_POLICY_AUTO, SUBMIT_POLICY_MANUAL]", negated
ValidPolicy(policy) == policy \in {SUBMIT_POLICY_AUTO, SUBMIT_POLICY_MANUAL}

PolicySetterCalls_submitOnAuto(policy) ==
  IF policy = SUBMIT_POLICY_AUTO /\ submit_policy = SUBMIT_POLICY_MANUAL
  THEN <<[Frame("submit", None, "loop") EXCEPT !.i = 1, !.n = Len(keys),
                                               !.saved = SUBMIT_POLICY_AUTO]>>
  ELSE <<>>

\* What the policy setter calls besides the assignment: nothing.
PolicySetterCalls(policy) == <<>>

SetPolicy(policy) ==
  /\ BeginLog("policy", None, UIThread, NoValues, <<Entry("policy", None, policy, 0)>>)
  /\ IF ~ValidPolicy(policy)
     THEN exc' = TRUE /\ UNCHANGED <<submit_policy, stack>>
     ELSE /\ exc' = FALSE /\ submit_policy' = policy
          /\ stack' = PolicySetterCalls(policy)
  /\ UNCHANGED <<mappings, keys, wsubs, msubs, dval, mval, queue>>

GuessProperty_comboText(bases) ==
  IF "QLineEdit" \in bases THEN "text"
  ELSE IF "QAbstractButton" \in bases THEN "checked"
  ELSE IF \/ "QSpinBox" \in bases
          \/ "QDoubleSpinBox" \in bases
          \/ "QAbstractSlider" \in bases THEN "value"
  ELSE IF "QComboBox" \in bases THEN "currentText"
  ELSE None

\* "guess widget property if not specified": the isinstance chain.
GuessProperty(bases) ==
  IF "QLineEdit" \in bases THEN "text"
  ELSE IF "QAbstractButton" \in bases THEN "checked"
  ELSE IF \/ "QSpinBox" \in bases
          \/ "QDoubleSpinBox" \in bases
          \/ "QAbstractSlider" \in bases THEN "value"
  ELSE IF "QComboBox" \in bases THEN "currentIndex"
  ELSE None

\* The widget property add_mapping works with.
PropertyName(w, c) ==
  IF c.widget_property_name = "" THEN GuessProperty(Bases(w))
  ELSE c.widget_property_name

AlreadyMapped_never(w) == FALSE

\* "if widget in self._mappings"
AlreadyMapped(w) == w \in DOMAIN mappings

MetaError_writableFirst(meta) ==
  IF ~meta.found THEN "NotAvailable"
  ELSE IF ~meta.isWritable THEN "NotWritable"
  ELSE IF ~meta.hasNotifySignal THEN "NoNotifySignal"
  ELSE IF ~meta.isReadable THEN "NotReadable"
  ELSE None

\* The checks of the widget property, in the order of the code.
MetaError(meta) ==
  IF ~meta.found THEN "NotAvailable"
  ELSE IF ~meta.hasNotifySignal THEN "NoNotifySignal"
  ELSE IF ~meta.isReadable THEN "NotReadable"
  ELSE IF ~meta.isWritable THEN "NotWritable"
  ELSE None

\* The model_getter that "if model_getter is None" tests: the partial made
\* two lines before, never None.
GetterIsNone(c) == FALSE

\* The exception add_mapping raises, named after its message, or None.
\* functools.partial(attr.fset, model) raises TypeError for a property
\* without setter.
add_mapping_error(w, c) ==
  IF AlreadyMapped(w) THEN "AlreadyMapped"
  ELSE IF PropertyName(w, c) = None THEN "NotGuessed"
  ELSE IF MetaError(c.meta) # None THEN MetaError(c.meta)
  ELSE IF c.attr = None THEN "NoAttribute"
  ELSE IF c.model_setter = None /\ c.attr = "readonly" THEN "TypeError"
  ELSE IF c.model_setter = None /\ GetterIsNone(c) THEN "Readonly"
  ELSE IF c.model_setter = "notcallable" THEN "NotCallable"
  ELSE IF c.model_property_notifier = "missing" THEN "NoNotifierAttribute"
  ELSE IF c.model_property_notifier = "notSignal" THEN "NotifierConnect"
  ELSE None

\* The widgets whose notify signal a failing add_mapping has connected to
\* its slot: the widget's connect comes after every check and before the
\* model notifier's connect.
ConnectedBeforeError(w, c) ==
  IF add_mapping_error(w, c) = "NotifierConnect" THEN {w} ELSE {}

ModelSlots_default(w, c) ==
  IF c.model_property_notifier # None
  THEN {<<c.model_property_notifier, w>>}
  ELSE {<<SignalOf(c.model), w>>}

\* "if model_notify_signal was specified, connect to it"
ModelSlots(w, c) ==
  IF c.model_property_notifier # None
  THEN {<<c.model_property_notifier, w>>}
  ELSE {}

ModelSetter_descriptorFirst(c) ==
  IF c.attr = "property" THEN "fset" ELSE c.model_setter

\* The model setter add_mapping stores: "if no setter was specified, get it
\* from the property", the property's fset bound to the model.
ModelSetter(c) ==
  IF c.model_setter = None /\ c.attr \in {"property", "readonly"}
  THEN "fset"
  ELSE c.model_setter

\* The log entry of add_mapping: its outcome ("added" or the exception),
\* the widget property it had resolved and the arguments it was called with.
AddEntry(k, w, name, c) ==
  [k |-> k, w |-> w, v |-> 0, r |-> 0, name |-> name, call |-> c]

\* add_mapping: the checks, then the two connections and the new mapping.
add_mapping(w, c) ==
  IF add_mapping_error(w, c) # None
  THEN /\ exc' = TRUE
       /\ wsubs' = wsubs \cup ConnectedBeforeError(w, c)
       /\ UNCHANGED <<mappings, keys, msubs>>
  ELSE /\ exc' = FALSE
       /\ wsubs' = wsubs \cup {w}
       /\ msubs' = msubs \cup ModelSlots(w, c)
       /\ mappings' = mappings @@ (w :>
            [widget_property_name |-> PropertyName(w, c),
             model |-> c.model,
             model_property_setter |-> ModelSetter(c),
             model_property_notifier |-> c.model_property_notifier,
             converter |-> c.converter,
             widget_property_notifications_disabled |-> FALSE,
             model_property_notifications_disabled |-> FALSE])
       /\ keys' = Append(keys, w)

InitialSync_revert(w, c) == <<MFrame(w, None)>>

\* What a successful add_mapping calls after saving the mapping: nothing,
\* neither the model's getter nor a setter.
InitialSync(w, c) == <<>>

\* add_mapping called from the event loop.
AddMapping(w, c) ==
  /\ BeginLog("add", w, UIThread, NoValues,
              <<AddEntry(IF add_mapping_error(w, c) = None THEN "added"
                         ELSE add_mapping_error(w, c),
                         w,
                         IF AlreadyMapped(w) THEN None ELSE PropertyName(w, c),
                         c)>>)
  /\ add_mapping(w, c)
  /\ stack' = IF add_mapping_error(w, c) = None THEN InitialSync(w, c) ELSE <<>>
  /\ UNCHANGED <<submit_policy, dval, mval, queue>>

\* Endpoint code, while a setter runs, calls add_mapping; v of the entry
\* tells whether the call raised.
SetterAdd(w, c) ==
  /\ stack # <<>> /\ ~exc /\ Top.k \in {"mset", "dset"}
  /\ cbLeft > 0
  /\ cbLeft' = cbLeft - 1
  /\ log' = Append(log, Entry("cbadd", w,
                              IF add_mapping_error(w, c) # None THEN 1 ELSE 0, 0))
  /\ add_mapping(w, c)
  /\ UNCHANGED <<submit_policy, dval, mval, stack, queue, ev>>

\* The mapper's state with widget w's mapping removed.
Without(w) ==
  [m |-> [x \in DOMAIN mappings \ {w} |-> mappings[x]],
   k |-> SelectSeq(keys, LAMBDA x: x # w)]

remove_mapping_silent(w) ==
  IF w \notin DOMAIN mappings
  THEN /\ exc' = FALSE
       /\ UNCHANGED <<mappings, keys, wsubs, msubs>>
  ELSE /\ exc' = FALSE
       /\ wsubs' = wsubs \ {w}
       /\ msubs' = msubs \ {<<mappings[w].model_property_notifier, w>>}
       /\ mappings' = Without(w).m
       /\ keys' = Without(w).k

remove_mapping_keepsModelSlot(w) ==
  IF w \notin DOMAIN mappings
  THEN /\ exc' = TRUE
       /\ UNCHANGED <<mappings, keys, wsubs, msubs>>
  ELSE /\ exc' = FALSE
       /\ wsubs' = wsubs \ {w}
       /\ msubs' = msubs
       /\ mappings' = Without(w).m
       /\ keys' = Without(w).k

\* remove_mapping: the check, the disconnections, the del.
remove_mapping(w) ==
  IF w \notin DOMAIN mappings
  THEN /\ exc' = TRUE
       /\ UNCHANGED <<mappings, keys, wsubs, msubs>>
  ELSE /\ exc' = FALSE
       /\ wsubs' = wsubs \ {w}
       /\ msubs' = msubs \ {<<mappings[w].model_property_notifier, w>>}
       /\ mappings' = Without(w).m
       /\ keys' = Without(w).k

RemoveMapping(w) ==
  /\ Begin("remove", w, UIThread, NoValues)
  /\ remove_mapping(w)
  /\ UNCHANGED <<submit_policy, dval, mval, stack, queue>>

\* Endpoint code, while a setter runs, calls remove_mapping; v of the entry
\* tells whether the call raised, r whether w is the widget of the mapping
\* whose setter is running.
SetterRemove(w) ==
  /\ stack # <<>> /\ ~exc /\ Top.k \in {"mset", "dset"}
  /\ cbLeft > 0
  /\ cbLeft' = cbLeft - 1
  /\ log' = Append(log, Entry("cbremove", w,
                              IF w \notin DOMAIN mappings THEN 1 ELSE 0,
                              IF w = Top.w THEN 1 ELSE 0))
  /\ remove_mapping(w)
  /\ UNCHANGED <<submit_policy, dval, mval, stack, queue, ev>>

\* The registry st after remove_mapping(w), called by clear_mapping.
Removed(st, w) ==
  IF w \notin DOMAIN st.m
  THEN [st EXCEPT !.err = TRUE]
  ELSE [m |-> [x \in DOMAIN st.m \ {w} |-> st.m[x]],
        k |-> SelectSeq(st.k, LAMBDA x: x # w),
        ws |-> st.ws \ {w},
        ms |-> st.ms \ {<<st.m[w].model_property_notifier, w>>},
        err |-> FALSE,
        calls |-> Append(st.calls, Entry("remove", w, 0, 0))]

\* The loop of clear_mapping over ks, ended by an exception.
RECURSIVE RemoveAll(_, _)
RemoveAll(st, ks) ==
  IF ks = <<>> \/ st.err THEN st
  ELSE RemoveAll(Removed(st, Head(ks)), Tail(ks))

KeysToClear_first == IF keys = <<>> THEN <<>> ELSE <<keys[1]>>

\* list(self._mappings.keys())
KeysToClear == keys

\* clear_mapping: remove_mapping for each key of a copy of the keys.
ClearMapping ==
  LET st == RemoveAll([m |-> mappings, k |-> keys, ws |-> wsubs, ms |-> msubs,
                       err |-> FALSE, calls |-> <<>>], KeysToClear)
  IN  /\ BeginLog("clear", None, UIThread, NoValues, st.calls)
      /\ exc' = st.err
      /\ wsubs' = st.ws
      /\ msubs' = st.ms
      /\ mappings' = st.m
      /\ keys' = st.k
      /\ UNCHANGED <<submit_policy, dval, mval, stack, queue>>

\* The call is over and control is back in the event loop; an exception
\* that reached it is reported there.
ReturnToEventLoop ==
  /\ Idle /\ ev # NoEvent
  /\ ev' = NoEvent
  /\ log' = <<>>
  /\ exc' = FALSE
  /\ cbLeft' = MaxCallbacks
  /\ UNCHANGED <<mappings, keys, submit_policy, wsubs, msubs, dval, mval, stack, queue>>

\* The UI thread alone, with endpoint code that never calls the mapper.
Next ==
  \/ OnWidgetNotification
  \/ OnWidgetFinally
  \/ OnModelNotification
  \/ OnModelFinally
  \/ SubmitLoop
  \/ RevertLoop
  \/ SetterReturn
  \/ \E w \in Widgets, v \in Vals: UserEdit(w, v)
  \/ \E p \in Props, v \in Vals: ModelWrite(p, v)
  \/ \E n \in Signals: ModelNotify(n)
  \/ CallSubmit
  \/ CallRevert
  \/ \E policy \in 0..2: SetPolicy(policy)
  \/ \E a \in AddCalls: AddMapping(a[1], a[2])
  \/ \E w \in Widgets: RemoveMapping(w)
  \/ ClearMapping
  \/ ReturnToEventLoop

Spec == Init /\ [][Next]_vars

\* With other threads calling submit() and revert().
NextThreads ==
  \/ Next
  \/ \E op \in {"submit", "revert"}, th \in Threads: OffThreadCall(op, th)
  \/ TimerFire

SpecThreads == Init /\ [][NextThreads]_vars

\* With endpoint code that calls revert() or submit().
NextCallbacks ==
  \/ Next
  \/ \E op \in {"submit", "revert"}: SetterCallback(op)

SpecCallbacks == Init /\ [][NextCallbacks]_vars

\* The registry alone: add_mapping with every kind of argument,
\* remove_mapping and clear_mapping.
NextRegistry ==
  \/ \E a \in AddCalls \cup BadAddCalls: AddMapping(a[1], a[2])
  \/ \E w \in Widgets \cup OtherWidgets: RemoveMapping(w)
  \/ ClearMapping
  \/ ReturnToEventLoop

SpecRegistry == Init /\ [][NextRegistry]_vars

\* Mappings added, also with a model notifier that cannot be resolved or
\* connected, and removed.
NextNotifier ==
  \/ \E a \in AddCalls \cup NotifierAddCalls: AddMapping(a[1], a[2])
  \/ \E w \in Widgets: RemoveMapping(w)
  \/ ClearMapping
  \/ ReturnToEventLoop

SpecNotifier == Init /\ [][NextNotifier]_vars

\* With endpoint code that adds and removes mappings while a setter runs.
NextRegistryCallbacks ==
  \/ OnWidgetNotification
  \/ OnWidgetFinally
  \/ OnModelNotification
  \/ OnModelFinally
  \/ SubmitLoop
  \/ RevertLoop
  \/ SetterReturn
  \/ \E w \in Widgets: SetterRemove(w)
  \/ \E a \in AddCalls: SetterAdd(a[1], a[2])
  \/ \E w \in Widgets, v \in Vals: UserEdit(w, v)
  \/ \E n \in Signals: ModelNotify(n)
  \/ CallSubmit
  \/ CallRevert
  \/ \E a \in AddCalls: AddMapping(a[1], a[2])
  \/ ReturnToEventLoop

SpecRegistryCallbacks == Init /\ [][NextRegistryCallbacks]_vars

\* Mappings added with a callable model_getter and no model_setter,
\* edited, submitted, reverted and notified.
NextGetter ==
  \/ OnWidgetNotification
  \/ OnWidgetFinally
  \/ OnModelNotification
  \/ OnModelFinally
  \/ SubmitLoop
  \/ RevertLoop
  \/ SetterReturn
  \/ \E w \in Widgets, v \in Vals: UserEdit(w, v)
  \/ \E p \in Props, v \in Vals: ModelWrite(p, v)
  \/ \E n \in Signals: ModelNotify(n)
  \/ CallSubmit
  \/ CallRevert
  \/ \E a \in GetterAddCalls: AddMapping(a[1], a[2])
  \/ ReturnToEventLoop

SpecGetter == Init /\ [][NextGetter]_vars

\* Mappings with a model_setter of their own and with the property's
\* setter, edited and submitted.
NextSetters ==
  \/ OnWidgetNotification
  \/ OnWidgetFinally
  \/ OnModelNotification
  \/ OnModelFinally
  \/ SubmitLoop
  \/ SetterReturn
  \/ \E w \in Widgets, v \in Vals: UserEdit(w, v)
  \/ CallSubmit
  \/ \E a \in SetterAddCalls: AddMapping(a[1], a[2])
  \/ ReturnToEventLoop

SpecSetters == Init /\ [][NextSetters]_vars

\* Edits and model signals, with endpoint code that changes the widget or
\* emits the model signal while a setter runs.
NextReentry ==
  \/ OnWidgetNotification
  \/ OnWidgetFinally
  \/ OnModelNotification
  \/ OnModelFinally
  \/ SetterReturn
  \/ \E v \in Vals: SetterEdit(v)
  \/ SetterNotify
  \/ \E w \in Widgets, v \in Vals: UserEdit(w, v)
  \/ \E n \in Signals: ModelNotify(n)
  \/ \E a \in {c \in AddCalls: c[1] = "w1"}: AddMapping(a[1], a[2])
  \/ ReturnToEventLoop

SpecReentry == Init /\ [][NextReentry]_vars

\* Calls of add_mapping for model property p1 with the notifier its
\* setter emits.
DeliveryAddCalls ==
  {c \in AddCalls: c[2].model = "p1" /\ c[2].model_property_notifier = "n1"}

\* A model property written by other threads, its signals delivered late
\* and in any order.
NextDelivery ==
  \/ OnModelNotification
  \/ OnModelFinally
  \/ OnWidgetNotification
  \/ SetterReturn
  \/ \E v \in Vals: ModelEmit("p1", v)
  \/ \E i \in 1..MaxPending: Deliver(i)
  \/ \E a \in DeliveryAddCalls: AddMapping(a[1], a[2])
  \/ ReturnToEventLoop

SpecDelivery == Init /\ [][NextDelivery]_vars

\* The UI thread's event loop serving timers while the user edits and other
\* threads call submit() and revert(); submit() and revert() are called
\* from other threads only, and the mappings have no converter.
NextTimers ==
  \/ OnWidgetNotification
  \/ OnWidgetFinally
  \/ OnModelNotification
  \/ OnModelFinally
  \/ SubmitLoop
  \/ RevertLoop
  \/ SetterReturn
  \/ \E w \in Widgets, v \in Vals: UserEdit(w, v)
  \/ \E policy \in 0..2: SetPolicy(policy)
  \/ \E a \in {c \in AddCalls: c[2].converter = None}: AddMapping(a[1], a[2])
  \/ \E op \in {"submit", "revert"}, th \in Threads: OffThreadCall(op, th)
  \/ TimerFire
  \/ ReturnToEventLoop

\* The same with mappings removed as well as added between a call from
\* another thread and its timer.
NextDeferred ==
  \/ NextTimers
  \/ \E w \in Widgets: RemoveMapping(w)

SpecDeferred == Init /\ [][NextDeferred]_vars

\* A call that has started goes on until it returns.
UIThreadRuns ==
  \/ OnWidgetNotification
  \/ OnWidgetFinally
  \/ OnModelNotification
  \/ OnModelFinally
  \/ SubmitLoop
  \/ RevertLoop
  \/ SetterReturn
  \/ ReturnToEventLoop

\* The event loop keeps running: a call returns, and a timer that is due
\* again and again between the other events is served.
SpecTimers ==
  /\ Init /\ [][NextTimers]_vars
  /\ WF_vars(UIThreadRuns)
  /\ SF_vars(TimerFire)

\* ================================================================ claims
\* The operation is over: control is back at its caller.
Done == Idle /\ ev # NoEvent

\* The log's entries of kind k made for widget w's mapping.
Calls(k, w) == SelectSeq(log, LAMBDA e: e.k = k /\ e.w = w)
Kinds == {log[i].k : i \in 1..Len(log)}

\* to_model and to_display of the mapping of widget w, None being no conversion.
to_model(w, d) ==
  IF mappings[w].converter = None THEN d
  ELSE widget_to_model(mappings[w].converter, d)
to_display(w, m) ==
  IF mappings[w].converter = None THEN m
  ELSE model_to_widget(mappings[w].converter, m)

\* An edit of a mapped widget under AUTO has been handled.
AutoEditDone ==
  Done /\ ev.op = "edit" /\ ev.pol = SUBMIT_POLICY_AUTO /\ Mapped(ev.w)

\* C1: under AUTO, when the handler of a widget's change notification has
\* returned, the mapping's model setter has been called exactly once, with
\* to_model of the value the widget held when the handler ran.
C1_AutoEditWritesModelOnce ==
  AutoEditDone =>
    /\ Len(Calls("mset", ev.w)) = 1
    /\ Calls("mset", ev.w)[1].v = to_model(ev.w, ev.d0[ev.w])

C1_Witness ==
  /\ AutoEditDone
  /\ mappings[ev.w].converter = "Half"
  /\ Len(Calls("mset", ev.w)) = 1
  /\ Calls("mset", ev.w)[1].v # ev.d0[ev.w]

\* C2: when an edit under AUTO wrote the model, the setter stored what it
\* was given and the mapping has a model notifier, the widget setter of
\* that mapping is not called: the handler of the model's notification,
\* when it ran inside the setter, returned early.
C2_NoEcho ==
  (/\ AutoEditDone
   /\ mappings[ev.w].model_property_notifier # None
   /\ \E i \in 1..Len(log):
        log[i].k = "mset" /\ log[i].w = ev.w /\ log[i].r = log[i].v)
  => Calls("dset", ev.w) = <<>>

C2_Witness ==
  /\ AutoEditDone
  /\ mappings[ev.w].model_property_notifier # None
  /\ Len(Calls("skip", ev.w)) = 1
  /\ Calls("dset", ev.w) = <<>>

\* C3: an operation other than submit() that started under MANUAL calls no
\* model setter, for no mapping.
C3_ManualDefers ==
  (ev.op # "submit" /\ ev.pol = SUBMIT_POLICY_MANUAL) => "mset" \notin Kinds

C3_Witness ==
  /\ Done /\ ev.op = "edit" /\ ev.pol = SUBMIT_POLICY_MANUAL /\ Mapped(ev.w)
  /\ mval[mappings[ev.w].model] # to_model(ev.w, dval[ev.w])
  /\ "mset" \notin Kinds

\* A submit() that started under MANUAL has returned without an error.
ManualSubmitDone ==
  /\ Done /\ ev.op = "submit" /\ ev.pol = SUBMIT_POLICY_MANUAL
  /\ ~exc /\ "error" \notin Kinds

\* C4: submit() under MANUAL calls the model setter of every mapping
\* exactly once, with to_model of the value the mapping's widget held when
\* submit() was called, whatever signals and models the mappings share.
C4_ManualBatching ==
  ManualSubmitDone =>
    \A w \in DOMAIN mappings:
      /\ Len(Calls("mset", w)) = 1
      /\ Calls("mset", w)[1].v = to_model(w, ev.d0[w])

\* C5: when submit() has returned to the event loop, normally or with the
\* exception of a model setter, the submit policy is the one it started under.
C5_SubmitRestoresPolicy ==
  (Done /\ ev.op = "submit") => submit_policy = ev.pol

C5_Witness ==
  /\ Done /\ ev.op = "submit" /\ exc
  /\ ev.pol = SUBMIT_POLICY_MANUAL
  /\ submit_policy = SUBMIT_POLICY_MANUAL
  /\ \E i \in 1..Len(log): log[i].k = "mset" /\ log[i].r = Raised

\* C6: revert() called from the event loop calls no model setter, and when
\* it has returned without error it has called the widget setter of every
\* mapping once, with to_display of the model's value, which the widget
\* then holds.
C6_RevertPullsModel ==
  /\ ev.op = "revert" => "mset" \notin Kinds
  /\ (Done /\ ev.op = "revert" /\ ~exc) =>
       \A w \in DOMAIN mappings:
         /\ Len(Calls("dset", w)) = 1
         /\ Calls("dset", w)[1].v = to_display(w, mval[mappings[w].model])
         /\ dval[w] = to_display(w, mval[mappings[w].model])

C6_Witness ==
  /\ Done /\ ev.op = "revert" /\ ~exc /\ ev.pol = SUBMIT_POLICY_AUTO
  /\ \E w \in DOMAIN mappings:
       /\ mappings[w].model_property_notifier = None
       /\ Len(Calls("dset", w)) = 1
       /\ Len(Calls("ignored", w)) = 1
       /\ dval[w] = to_display(w, mval[mappings[w].model])

\* C7: every revert(), also one called by endpoint code while a mapping's
\* model_property_notifications_disabled flag is set, has called the widget
\* setter of every mapping when its loop ends.
C7_RevertAlwaysOverwrites ==
  (/\ stack # <<>> /\ ~exc
   /\ Top.k = "revert" /\ Top.n = Len(keys) /\ Top.i > Len(keys))
  => \A w \in DOMAIN mappings:
       \E j \in (Top.v + 1)..Len(log): log[j].k = "dset" /\ log[j].w = w

\* C8: when the slots of a model signal delivered from the event loop have
\* run, the widget setter of every mapping connected to the signal has been
\* called once, with to_display of the model's value, and no model setter
\* has been called, whatever the policy.
C8_ModelNotificationWritesOnce ==
  /\ ev.op = "notify" => "mset" \notin Kinds
  /\ (Done /\ ev.op = "notify") =>
       \A w \in DOMAIN mappings:
         mappings[w].model_property_notifier = ev.w =>
           /\ Len(Calls("dset", w)) = 1
           /\ Calls("dset", w)[1].v = to_display(w, mval[mappings[w].model])

C8_Witness ==
  /\ Done /\ ev.op = "notify" /\ ev.pol = SUBMIT_POLICY_AUTO
  /\ \E w \in DOMAIN mappings:
       /\ mappings[w].model_property_notifier = ev.w
       /\ mappings[w].converter = "Half"
       /\ Len(Calls("dset", w)) = 1
       /\ Len(Calls("ignored", w)) = 1
       /\ mval[mappings[w].model] # to_model(w, dval[w])

\* The log's entries i that report the error of a setter: the entry before
\* is the call of the mapping's setter that raised.
SetterErrors ==
  {i \in 2..Len(log): /\ log[i].k = "error"
                      /\ log[i - 1].k \in {"mset", "dset"}
                      /\ log[i - 1].w = log[i].w
                      /\ log[i - 1].r = Raised}

NoFlagSet ==
  \A w \in DOMAIN mappings:
    /\ ~mappings[w].widget_property_notifications_disabled
    /\ ~mappings[w].model_property_notifications_disabled

\* C9 as stated: whenever the error of a model setter or of a widget setter
\* leaves the handler that called it, both flags of the mapping are false.
C9_BothFlagsFalse ==
  \A i \in SetterErrors: log[i].v = 0

\* C9: when a model setter's error leaves the widget handler both flags of
\* the mapping are false; when a widget setter's error leaves the model
\* handler the flag that handler set is false, the other one being still
\* set when the handler ran inside the mapping's widget handler; under
\* submit() and revert(), and whenever no handler is running, no flag is set.
C9_ScopedRelease ==
  /\ \A i \in SetterErrors:
       IF log[i - 1].k = "mset" THEN log[i].v = 0 ELSE log[i].v \in {0, 2}
  /\ (stack # <<>> /\ exc /\ Top.k \in {"submit", "revert"}) => NoFlagSet
  /\ Idle => NoFlagSet

C9_Witness ==
  /\ Done /\ ev.op = "edit" /\ ev.pol = SUBMIT_POLICY_AUTO
  /\ ev.w \in DOMAIN mappings
  /\ \E i \in SetterErrors:
       log[i].w = ev.w /\ log[i - 1].k = "dset" /\ log[i].v = 2
  /\ NoFlagSet

\* C10: a call of submit() or revert() that leaves a timer changes no
\* mapping, flag, policy, endpoint value or log entry, and the frames of
\* submit() and revert() that run are the UI thread's.
C10_OffThreadDefers ==
  /\ [][Len(queue') > Len(queue) =>
          UNCHANGED <<mappings, keys, submit_policy, dval, mval, stack, exc, log>>]_vars
  /\ [](\A i \in 1..Len(stack): stack[i].th = UIThread)

C10_Witness ==
  /\ queue = <<"submit">> /\ Idle /\ ev = NoEvent
  /\ submit_policy = SUBMIT_POLICY_MANUAL
  /\ \E w \in DOMAIN mappings:
       mval[mappings[w].model] # to_model(w, dval[w])

\* The event loop takes the oldest timer off the queue and runs its slot,
\* submit() or revert(), on the UI thread.
TimerRuns ==
  /\ queue # <<>>
  /\ queue' = Tail(queue)
  /\ Len(stack') = 1
  /\ stack'[1].k = Head(queue)
  /\ stack'[1].th = UIThread
  /\ stack'[1].i = 1

\* C11: the timer queue changes only by a call that adds its timer at the
\* end or by the event loop running the oldest timer's slot once on the UI
\* thread (nothing cancels a timer), and the event loop runs timers again
\* and again unless the queue is empty from some time on: no timer stays
\* queued for ever.
C11_TimerEventuallyRuns ==
  /\ [][queue' # queue =>
          \/ \E op \in {"submit", "revert"}:
               queue' = Append(queue, op) /\ UNCHANGED stack
          \/ TimerRuns]_vars
  /\ ([]<><<TimerRuns>>_vars \/ <>[](queue = <<>>))

C11_Witness ==
  /\ ev.op = "submit" /\ ev.pol = SUBMIT_POLICY_MANUAL
  /\ stack # <<>> /\ Top.k = "mset"
  /\ queue # <<>>

\* The registry and the connections agree: the keys are the mapped widgets,
\* each once, and the connected slots are those of the mappings.
OneMappingPerWidget ==
  /\ \A i, j \in 1..Len(keys): keys[i] = keys[j] => i = j
  /\ {keys[i] : i \in 1..Len(keys)} = DOMAIN mappings
  /\ wsubs = DOMAIN mappings
  /\ msubs = {<<mappings[w].model_property_notifier, w>> :
                w \in {x \in DOMAIN mappings:
                         mappings[x].model_property_notifier # None}}

\* C12: every widget has at most one mapping and one connection per signal,
\* and add_mapping for a mapped widget raises "already mapped" and changes
\* neither the mappings nor the connections.
C12_OneMappingPerWidget ==
  /\ []OneMappingPerWidget
  /\ [][(ev.op = "idle" /\ ev'.op = "add" /\ ev'.w \in DOMAIN mappings) =>
          /\ exc'
          /\ log'[1].k = "AlreadyMapped"
          /\ UNCHANGED <<mappings, keys, wsubs, msubs>>]_vars

C12_Witness ==
  /\ Done /\ ev.op = "add" /\ exc
  /\ Len(log) = 1 /\ log[1].k = "AlreadyMapped"
  /\ ev.w \in DOMAIN mappings
  /\ mappings[ev.w].model_property_notifier # None
  /\ Len(keys) = 2

\* C13: remove_mapping for a widget without mapping raises and changes
\* neither the mappings nor the connections; for a mapped widget it returns
\* and the widget has no mapping afterwards, so that a second call raises.
C13_RemoveUnmappedRaises ==
  [][(ev.op = "idle" /\ ev'.op = "remove") =>
       IF ev'.w \in DOMAIN mappings
       THEN ~exc' /\ ev'.w \notin DOMAIN mappings'
       ELSE exc' /\ UNCHANGED <<mappings, keys, wsubs, msubs>>]_vars

C13_Witness ==
  /\ Done /\ ev.op = "remove" /\ exc
  /\ ev.w \notin DOMAIN mappings
  /\ mappings # <<>>
  /\ msubs # {}

\* C14: remove_mapping for a mapped widget disconnects the widget's slot and
\* the model's slot and deletes the mapping; no edit of a widget without
\* mapping and no model signal makes the mapper call a setter for a widget
\* without mapping (or fail on one); add_mapping for an unmapped widget
\* succeeds.
C14_RemoveDisconnects ==
  /\ [][(ev.op = "idle" /\ ev'.op = "remove" /\ ev'.w \in DOMAIN mappings) =>
          /\ ev'.w \notin DOMAIN mappings'
          /\ wsubs' = wsubs \ {ev'.w}
          /\ msubs' = {s \in msubs: s[2] # ev'.w}
          /\ \A x \in DOMAIN mappings': mappings'[x] = mappings[x]]_vars
  /\ []((ev.op = "edit" /\ ev.w \notin DOMAIN mappings) => log = <<>> /\ ~exc)
  /\ [](ev.op \in {"edit", "notify", "write"} =>
          \A i \in 1..Len(log): log[i].w \in DOMAIN mappings)
  /\ [][(ev.op = "idle" /\ ev'.op = "add" /\ ev'.w \notin DOMAIN mappings) =>
          ~exc' /\ ev'.w \in DOMAIN mappings' /\ ev'.w \in wsubs']_vars

C14_Witness ==
  /\ Done /\ ev.op = "remove" /\ ~exc
  /\ ev.w \notin DOMAIN mappings
  /\ ev.w \notin wsubs
  /\ \E s \in msubs: s[1] = "n1"
  /\ \A s \in msubs: s[2] # ev.w

\* C15: when clear_mapping has returned to the event loop it has raised
\* nothing and there is no mapping and no connection left, whether there
\* were none, one or more mappings.
C15_ClearRemovesAll ==
  (Done /\ ev.op = "clear") =>
    /\ ~exc
    /\ mappings = <<>> /\ keys = <<>>
    /\ wsubs = {} /\ msubs = {}

C15_Witness ==
  /\ Done /\ ev.op = "clear" /\ ~exc
  /\ Len(log) = 2 /\ log[1].w # log[2].w
  /\ mappings = <<>> /\ wsubs = {} /\ msubs = {}

\* C16: a new mapper's policy is AUTO; setting a policy that is neither AUTO
\* nor MANUAL raises and leaves the policy as it was; setting AUTO or MANUAL
\* makes it the policy read afterwards.
C16_PolicySetter ==
  /\ submit_policy = SUBMIT_POLICY_AUTO
  /\ [][(ev.op = "idle" /\ ev'.op = "policy") =>
          IF log'[1].v \in {SUBMIT_POLICY_AUTO, SUBMIT_POLICY_MANUAL}
          THEN ~exc' /\ submit_policy' = log'[1].v
          ELSE exc' /\ submit_policy' = submit_policy]_vars

C16_Witness ==
  /\ Done /\ ev.op = "policy" /\ exc
  /\ log[1].v \notin {SUBMIT_POLICY_AUTO, SUBMIT_POLICY_MANUAL}
  /\ submit_policy = SUBMIT_POLICY_MANUAL

\* C17: outside revert() the mapper never calls the widget setter of a
\* mapping that has no model_property_notifier, whatever happens to the
\* model's value.
C17_NoNotifierNoRefresh ==
  \A w \in DOMAIN mappings:
    (mappings[w].model_property_notifier = None /\ ev.op # "revert")
      => Calls("dset", w) = <<>>

C17_Witness ==
  /\ Done /\ ev.op = "notify" /\ ev.w = "n1"
  /\ \E w, x \in DOMAIN mappings:
       /\ mappings[w].model_property_notifier = None
       /\ mappings[x].model_property_notifier = "n1"
       /\ mappings[x].model = mappings[w].model
       /\ Len(Calls("dset", x)) = 1
       /\ Calls("dset", w) = <<>>
       /\ dval[w] # to_display(w, mval[mappings[w].model])

\* The exceptions add_mapping raises before it looks at the model.
WidgetErrors ==
  {"AlreadyMapped", "NotGuessed", "NotAvailable", "NoNotifySignal",
   "NotReadable", "NotWritable"}

\* C18: add_mapping for a model property without setter and without
\* model_setter, the widget being unmapped and its property in order,
\* raises the "is readonly" exception and leaves the widget without mapping
\* and without connection.
C18_ReadOnlyModelProperty ==
  (/\ Done /\ ev.op = "add"
   /\ log[1].call.attr = "readonly" /\ log[1].call.model_setter = None
   /\ log[1].k \notin WidgetErrors)
  => /\ exc /\ log[1].k = "Readonly"
     /\ ev.w \notin DOMAIN mappings
     /\ ev.w \notin wsubs

\* C19: add_mapping for an unmapped widget whose property is resolved
\* raises "not available" when the property is missing, else "no notify
\* signal" when it has none, else "not readable", else "not writable", four
\* different exceptions, and then changes neither the mappings nor the
\* connections.
C19_WidgetPropertyChecks ==
  /\ []((Done /\ ev.op = "add" /\ log[1].k \notin {"AlreadyMapped", "NotGuessed"}) =>
          LET meta == log[1].call.meta
              k == log[1].k
          IN  /\ ~meta.found => k = "NotAvailable"
              /\ (meta.found /\ ~meta.hasNotifySignal) => k = "NoNotifySignal"
              /\ (meta.found /\ meta.hasNotifySignal /\ ~meta.isReadable)
                   => k = "NotReadable"
              /\ (/\ meta.found /\ meta.hasNotifySignal
                  /\ meta.isReadable /\ ~meta.isWritable) => k = "NotWritable"
              /\ meta # GoodMeta => exc /\ ev.w \notin DOMAIN mappings)
  /\ [][(/\ ev.op = "idle" /\ ev'.op = "add"
         /\ log'[1].k \in {"NotAvailable", "NoNotifySignal", "NotReadable",
                           "NotWritable"}) =>
          UNCHANGED <<mappings, keys, wsubs, msubs>>]_vars

C19_Witness ==
  /\ Done /\ ev.op = "add" /\ exc
  /\ log[1].k = "NoNotifySignal"
  /\ ~log[1].call.meta.isReadable /\ ~log[1].call.meta.isWritable
  /\ mappings # <<>> /\ msubs # {}

\* C20: add_mapping called with an empty property name for an unmapped
\* widget works with "text" for a QLineEdit, "checked" for a
\* QAbstractButton, "value" for a QSpinBox, QDoubleSpinBox or
\* QAbstractSlider and "currentIndex" for a QComboBox, and for a widget of
\* none of these classes raises "could not be guessed" and registers
\* nothing; a property name that is given is the one it works with and
\* stores.
C20_GuessedProperty ==
  (Done /\ ev.op = "add" /\ log[1].k # "AlreadyMapped") =>
    LET c == log[1].call
        name == log[1].name
        B == Bases(ev.w)
    IN  /\ c.widget_property_name # "" =>
             name = c.widget_property_name /\ log[1].k # "NotGuessed"
        /\ c.widget_property_name = "" =>
             /\ "QLineEdit" \in B => name = "text"
             /\ "QAbstractButton" \in B => name = "checked"
             /\ B \cap {"QSpinBox", "QDoubleSpinBox", "QAbstractSlider"} # {}
                  => name = "value"
             /\ "QComboBox" \in B => name = "currentIndex"
             /\ B \cap {"QLineEdit", "QAbstractButton", "QSpinBox",
                        "QDoubleSpinBox", "QAbstractSlider", "QComboBox"} = {}
                  => /\ log[1].k = "NotGuessed" /\ exc
                     /\ ev.w \notin DOMAIN mappings /\ ev.w \notin wsubs
        /\ log[1].k = "added" =>
             /\ ~exc /\ ev.w \in DOMAIN mappings
             /\ mappings[ev.w].widget_property_name = name

C20_Witness ==
  /\ Done /\ ev.op = "add" /\ ~exc /\ ev.w = "w2"
  /\ log[1].call.widget_property_name = ""
  /\ DOMAIN mappings = {"w1", "w2"}
  /\ mappings["w2"].widget_property_name = "currentIndex"
  /\ mappings["w1"].widget_property_name = "windowTitle"

\* C21: add_mapping stores the model_setter it is given, and the property's
\* own setter only when none is given; every model write of a mapping calls
\* the setter the mapping stores.
C21_ExplicitSetterWins ==
  /\ (Done /\ ev.op = "add" /\ log[1].k = "added") =>
       mappings[ev.w].model_property_setter =
         (IF log[1].call.model_setter # None THEN log[1].call.model_setter
          ELSE "fset")
  /\ ev.op \in {"edit", "submit"} =>
       \A i \in 1..Len(log):
         log[i].k = "mset" =>
           log[i].setter = mappings[log[i].w].model_property_setter

C21_Witness ==
  /\ Done /\ ev.op = "submit" /\ ~exc
  /\ DOMAIN mappings = {"w1", "w2"}
  /\ mappings["w1"].model_property_setter = "fset"
  /\ mappings["w2"].model_property_setter = "explicit"
  /\ \E i, j \in 1..Len(log):
       /\ log[i].k = "mset" /\ log[i].w = "w1" /\ log[i].setter = "fset"
       /\ log[j].k = "mset" /\ log[j].w = "w2" /\ log[j].setter = "explicit"

\* An AUTO edit of a mapped widget whose model setter stored another value
\* than it was given and whose signal ran the mapping's own slot.
ClampedEdit ==
  /\ ev.op = "edit" /\ ev.pol = SUBMIT_POLICY_AUTO
  /\ ev.w \in DOMAIN mappings
  /\ <<SignalOf(mappings[ev.w].model), ev.w>> \in msubs
  /\ Len(log) > 0 /\ log[1].k = "mset" /\ log[1].w = ev.w
  /\ log[1].emit /\ log[1].r # log[1].v

\* C22: in such an edit the model setter is called once, at no time more,
\* and the widget setter of the mapping once, with to_display of the value
\* the model stored; when the edit is over and the widget setter has not
\* raised the widget holds that value.
C22_ClampingTerminates ==
  ClampedEdit =>
    /\ Len(SelectSeq(log, LAMBDA e: e.k = "mset")) = 1
    /\ Len(Calls("dset", ev.w)) <= 1
    /\ Done =>
         /\ Len(Calls("dset", ev.w)) = 1
         /\ Calls("dset", ev.w)[1].v = to_display(ev.w, log[1].r)
         /\ Calls("dset", ev.w)[1].r # Raised =>
              dval[ev.w] = to_display(ev.w, log[1].r)

C22_Witness ==
  /\ ClampedEdit /\ Done /\ ~exc
  /\ log[1].r = Clamp(log[1].v)
  /\ Len(Calls("dset", ev.w)) = 1
  /\ Len(Calls("ignored", ev.w)) = 1
  /\ dval[ev.w] = to_display(ev.w, log[1].r)
  /\ dval[ev.w] # ev.d0[ev.w]

\* C23: whenever no handler, submit() or revert() is running, no mapping has
\* a flag set, whatever edits, model signals, submits, reverts and failing
\* setters came before.
C23_FlagsClearWhenIdle ==
  stack = <<>> =>
    \A w \in DOMAIN mappings:
      /\ mappings[w].widget_property_notifications_disabled = FALSE
      /\ mappings[w].model_property_notifications_disabled = FALSE

C23_Witness ==
  /\ Done /\ ev.op = "revert" /\ exc
  /\ Len(keys) = 2
  /\ \E i \in 1..Len(log): log[i].k = "dset" /\ log[i].r = Raised
  /\ NoFlagSet

\* The stack's frames of kind k (a setter that has not returned) for widget w.
Running(k, w) == {i \in 1..Len(stack): stack[i].k = k /\ stack[i].w = w}

Untouched(B) ==
  /\ mappings'[B] = mappings[B]
  /\ dval'[B] = dval[B]
  /\ mval'[mappings[B].model] = mval[mappings[B].model]

\* An edit of the mapped widget A under AUTO is being handled after the step.
AutoEditOf(A) ==
  /\ ev'.op = "edit" /\ ev'.pol = SUBMIT_POLICY_AUTO /\ ev'.w = A
  /\ A \in DOMAIN mappings

\* C25 as stated: no step of an AUTO edit of A calls another mapping's model
\* setter or changes the flags, display value or model value of a mapping B
\* whose model slot A's model signal does not run.
C25_IndependentUnlessNotified ==
  [][\A A \in Widgets: AutoEditOf(A) =>
       /\ \A i \in 1..Len(log'): log'[i].k = "mset" => log'[i].w = A
       /\ \A B \in DOMAIN mappings \ {A}:
            <<SignalOf(mappings[A].model), B>> \notin msubs => Untouched(B)]_vars

\* C25: no step of an AUTO edit of A calls another mapping's model setter or
\* changes the flags or the display value of a mapping B whose model slot
\* A's model signal does not run, nor B's model value when B is mapped to
\* another model property than A.
C25_BindingsIndependent ==
  [][\A A \in Widgets: AutoEditOf(A) =>
       /\ \A i \in 1..Len(log'): log'[i].k = "mset" => log'[i].w = A
       /\ \A B \in DOMAIN mappings \ {A}:
            <<SignalOf(mappings[A].model), B>> \notin msubs =>
              /\ mappings'[B] = mappings[B]
              /\ dval'[B] = dval[B]
              /\ mappings[B].model # mappings[A].model => Untouched(B)]_vars

C25_Witness ==
  /\ AutoEditDone /\ ~exc
  /\ DOMAIN mappings = {"w1", "w2"}
  /\ \E B \in Widgets \ {ev.w}:
       /\ <<SignalOf(mappings[ev.w].model), B>> \notin msubs
       /\ mappings[B].model # mappings[ev.w].model
       /\ mappings[B].model_property_notifier # None
       /\ dval[B] # to_display(B, mval[mappings[B].model])
  /\ Len(Calls("mset", ev.w)) = 1 /\ Calls("mset", ev.w)[1].emit
  /\ Len(Calls("dset", ev.w)) = 1

\* A submit() called on the UI thread has returned without an exception.
SubmitDone == Done /\ ev.op = "submit" /\ ev.th = UIThread /\ ~exc

\* C26: under either policy, a model setter call just made during a submit()
\* on the UI thread got to_model of the value its widget holds, and when
\* submit() has returned without an exception every mapping's model setter
\* has been called exactly once, changed widget or not.
C26_SubmitWritesEveryMapping ==
  /\ (ev.op = "submit" /\ ev.th = UIThread /\ log # <<>>
        /\ log[Len(log)].k = "mset") =>
       /\ log[Len(log)].w \in DOMAIN mappings
       /\ log[Len(log)].v = to_model(log[Len(log)].w, dval[log[Len(log)].w])
  /\ SubmitDone =>
       \A w \in DOMAIN mappings: Len(Calls("mset", w)) = 1

C26_Witness ==
  /\ SubmitDone /\ ev.pol = SUBMIT_POLICY_AUTO
  /\ DOMAIN mappings = {"w1", "w2"}
  /\ ev.d0 = dval
  /\ \A w \in DOMAIN mappings:
       /\ Len(Calls("mset", w)) = 1
       /\ Calls("mset", w)[1].v = to_model(w, dval[w])
       /\ Calls("mset", w)[1].r = Calls("mset", w)[1].v
       /\ mappings[w].converter = "Half"

\* C27: when a delivered model signal has been handled without an error and
\* no signal of the same name is waiting, every widget mapped to a property
\* of that signal shows to_display of the property's value now, whatever
\* value the signal carried.
C27_LateDeliveryReadsCurrent ==
  (/\ Done /\ ev.op = "deliver" /\ ~exc /\ "error" \notin Kinds
   /\ \A i \in 1..Len(queue): queue[i].sig # ev.w) =>
    \A w \in DOMAIN mappings:
      (/\ mappings[w].model_property_notifier = ev.w
       /\ SignalOf(mappings[w].model) = ev.w) =>
        dval[w] = to_display(w, mval[mappings[w].model])

C27_Witness ==
  /\ Done /\ ev.op = "deliver" /\ ~exc /\ queue = <<>>
  /\ \E w \in DOMAIN mappings:
       /\ mappings[w].model_property_notifier = ev.w
       /\ log[1].v # mval[mappings[w].model]
       /\ Len(Calls("dset", w)) = 1
       /\ Calls("dset", w)[1].v = to_display(w, mval[mappings[w].model])
       /\ Calls("dset", w)[1].v # to_display(w, log[1].v)
       /\ dval[w] = Calls("dset", w)[1].v

\* C28: the widgets whose notify signal is connected to the mapper's slot are
\* the mapped widgets, and a failed add_mapping has left both as they were.
C28_SubscribedIsBound ==
  /\ wsubs = DOMAIN mappings
  /\ (Done /\ ev.op = "add" /\ exc /\ log[1].k # "AlreadyMapped") =>
       ev.w \notin DOMAIN mappings /\ ev.w \notin wsubs

\* An AUTO edit of a mapped widget has been handled without an error, its
\* model setter having emitted the signal the mapping's model slot is
\* connected to.
NotifiedEditDone ==
  /\ AutoEditDone /\ ~exc /\ "error" \notin Kinds
  /\ <<SignalOf(mappings[ev.w].model), ev.w>> \in msubs
  /\ Len(log) > 0 /\ log[1].k = "mset" /\ log[1].w = ev.w /\ log[1].emit

\* C29: after such an edit the model holds to_model of the value the widget
\* shows, provided to_model(to_display(m)) = m for the value m the model
\* holds (as it is when that is so for every model value).
C29_Convergence ==
  LET w == ev.w
      m == mval[mappings[w].model]
  IN  (NotifiedEditDone /\ to_model(w, to_display(w, m)) = m) =>
        m = to_model(w, dval[w])

C29_Witness ==
  /\ NotifiedEditDone /\ ClampedEdit
  /\ \A m \in Vals: to_model(ev.w, to_display(ev.w, m)) = m
  /\ dval[ev.w] # ev.d0[ev.w]
  /\ mval[mappings[ev.w].model] = to_model(ev.w, dval[ev.w])
  /\ mval[mappings[ev.w].model] # to_model(ev.w, ev.d0[ev.w])

\* C30: a model signal handled under MANUAL without an error has written
\* to_display of the model's value to every widget connected to it, whatever
\* the widget showed, and has written no model; a submit() under MANUAL
\* first writes to_model of what its first widget showed when it was called.
C30_PolicyGatesOnlyDisplayToModel ==
  /\ (Done /\ ev.op = "notify" /\ ev.pol = SUBMIT_POLICY_MANUAL
        /\ ~exc /\ "error" \notin Kinds) =>
       /\ "mset" \notin Kinds
       /\ \A w \in DOMAIN mappings:
            <<ev.w, w>> \in msubs =>
              /\ Len(Calls("dset", w)) = 1
              /\ Calls("dset", w)[1].v = to_display(w, mval[mappings[w].model])
              /\ dval[w] = to_display(w, mval[mappings[w].model])
  /\ (ev.op = "submit" /\ ev.th = UIThread /\ ev.pol = SUBMIT_POLICY_MANUAL
        /\ log # <<>>) =>
       /\ log[1].k = "mset" /\ log[1].w = keys[1]
       /\ log[1].v = to_model(keys[1], ev.d0[keys[1]])

C30_Witness ==
  /\ Done /\ ev.op = "notify" /\ ev.pol = SUBMIT_POLICY_MANUAL /\ ~exc
  /\ \E w \in DOMAIN mappings:
       /\ <<ev.w, w>> \in msubs
       /\ mappings[w].converter = "Half"
       /\ Len(Calls("dset", w)) = 1
       /\ Len(Calls("ignored", w)) = 1
       /\ dval[w] = to_display(w, mval[mappings[w].model])
  /\ "mset" \notin Kinds

\* C31: setting the policy calls no setter and nothing of the mapper: while
\* it is the operation in hand nothing runs and nothing is logged but the
\* call, and its step leaves mappings, flags, connections, widget values
\* and model values as they were, also those that differ.
C31_PolicyChangeIsInert ==
  /\ [](ev.op = "policy" => stack = <<>> /\ Len(log) = 1)
  /\ [][(ev.op = "idle" /\ ev'.op = "policy") =>
          UNCHANGED <<mappings, keys, wsubs, msubs, dval, mval>>]_vars

C31_Witness ==
  /\ Done /\ ev.op = "policy" /\ ~exc
  /\ ev.pol = SUBMIT_POLICY_MANUAL /\ submit_policy = SUBMIT_POLICY_AUTO
  /\ \E w \in DOMAIN mappings:
       /\ mappings[w].converter = "Half"
       /\ mval[mappings[w].model] # to_model(w, dval[w])

\* C32: submit() and revert() run by a timer touch the mappings there are
\* when they run and no other widget: having returned without an exception,
\* submit() has called the model setter of each of them once and revert()
\* the widget setter of each once; an exception is a setter's own; the
\* policy afterwards is the one in force when the timer's slot began.
C32_DeferredActsOnCurrentRegistry ==
  (Done /\ ev.op \in {"submit", "revert"}) =>
    /\ \A i \in 1..Len(log): log[i].w \in DOMAIN mappings
    /\ submit_policy = ev.pol
    /\ exc => \E i \in 1..Len(log): log[i].r = Raised
    /\ ~exc =>
         \A w \in DOMAIN mappings:
           /\ ev.op = "submit" => Len(Calls("mset", w)) = 1
           /\ ev.op = "revert" => Len(Calls("dset", w)) = 1

C32_Witness ==
  /\ Done /\ ev.op = "submit" /\ ~exc
  /\ ev.pol = SUBMIT_POLICY_MANUAL /\ submit_policy = SUBMIT_POLICY_MANUAL
  /\ DOMAIN mappings = {"w2"}
  /\ wsubs = {"w2"}
  /\ Len(log) = 1 /\ log[1].k = "mset" /\ log[1].w = "w2"
  /\ dval["w1"] # 0
  /\ queue = <<>>

\* The model setter calls of the operation in hand, in the order made.
ModelWrites == SelectSeq(log, LAMBDA e: e.k = "mset")

\* C33: when a submit() in which a model setter raised has returned, the
\* exception has reached the caller; the setters called are those of the
\* first mappings in the order of the loop, the raising one last; every
\* model written before it holds what its setter stored; no flag is set
\* and the policy is the one submit() started under.
C33_SubmitStopsAtFirstError ==
  (/\ Done /\ ev.op = "submit"
   /\ \E i \in 1..Len(log): log[i].k = "mset" /\ log[i].r = Raised) =>
    /\ exc
    /\ Len(ModelWrites) <= Len(keys)
    /\ \A j \in 1..Len(ModelWrites):
         /\ ModelWrites[j].w = keys[j]
         /\ IF j = Len(ModelWrites)
            THEN ModelWrites[j].r = Raised
            ELSE /\ ModelWrites[j].r # Raised
                 /\ mval[mappings[keys[j]].model] = ModelWrites[j].r
    /\ NoFlagSet
    /\ submit_policy = ev.pol

C33_Witness ==
  /\ Done /\ ev.op = "submit" /\ exc
  /\ ev.pol = SUBMIT_POLICY_MANUAL
  /\ Len(keys) = 2 /\ Len(ModelWrites) = 2
  /\ ModelWrites[2].r = Raised
  /\ ModelWrites[1].r # Raised /\ ModelWrites[1].emit
  /\ mval[mappings[keys[1]].model] = ModelWrites[1].r
  /\ mval[mappings[keys[2]].model] # ModelWrites[2].v

\* An edit or a model signal has been handled in which endpoint code, from
\* inside a setter of widget w's mapping, removed that mapping, and no
\* setter or other call of endpoint code raised.
RemovedInPropagation(w) ==
  /\ Done /\ ev.op \in {"edit", "notify"}
  /\ \A i \in 1..Len(log):
       /\ log[i].k \in {"mset", "dset"} => log[i].r # Raised
       /\ log[i].k \in {"cbadd", "cbremove"} =>
            log[i].k = "cbremove" /\ log[i].w = w /\ log[i].v = 0 /\ log[i].r = 1
  /\ \E i \in 1..Len(log): log[i].k = "cbremove"

\* C34: such an operation leaves the widget without a mapping and ends
\* without an exception, raised to the caller or reported by a slot.
C34_RemoveInsidePropagation ==
  \A w \in Widgets:
    RemovedInPropagation(w) =>
      /\ w \notin DOMAIN mappings /\ w \notin wsubs
      /\ ~exc /\ "error" \notin Kinds

\* The widgets endpoint code added or removed a mapping for during the
\* operation in hand.
Changed == {log[i].w : i \in {j \in 1..Len(log): log[j].k \in {"cbadd", "cbremove"}}}

\* A submit() or revert() has returned during which endpoint code, inside a
\* setter, added or removed the mapping of another widget than the setter's,
\* no setter and no such call having raised.
RegistryChangedInLoop ==
  /\ Done /\ ev.op \in {"submit", "revert"}
  /\ \A i \in 1..Len(log):
       /\ log[i].k \in {"mset", "dset"} => log[i].r # Raised
       /\ log[i].k \in {"cbadd", "cbremove"} => log[i].v = 0 /\ log[i].r = 0
  /\ Changed # {}

\* C35: such a submit() or revert() ends without an exception, and has
\* called once the setter of every mapping that was there all the time.
C35_RegistryChangeInsideLoop ==
  RegistryChangedInLoop =>
    /\ ~exc /\ "error" \notin Kinds
    /\ \A w \in DOMAIN mappings \ Changed:
         /\ ev.op = "submit" => Len(Calls("mset", w)) = 1
         /\ ev.op = "revert" => Len(Calls("dset", w)) = 1

\* The mapped widgets whose mapping has no model setter.
Setterless == {w \in DOMAIN mappings: mappings[w].model_property_setter = None}

\* C36: add_mapping with a callable model_getter and no model_setter adds a
\* mapping whose setter is None.  An AUTO edit of its widget ends with the
\* error of the setter call reported, a submit() over it with an exception;
\* no step of either changes the mapping's model value, and no flag is set
\* afterwards.  revert() and a model signal still write to_display of the
\* model's value to its widget.
C36_GetterWithoutSetter ==
  /\ [](/\ (Done /\ ev.op = "add" /\ log[1].call.attr = "callable"
              /\ log[1].call.model_setter = None /\ log[1].k # "AlreadyMapped") =>
             /\ ~exc /\ log[1].k = "added"
             /\ ev.w \in Setterless
        /\ (Done /\ ev.op = "edit" /\ ev.pol = SUBMIT_POLICY_AUTO
              /\ ev.w \in Setterless) =>
             /\ Len(Calls("mset", ev.w)) = 1
             /\ Calls("mset", ev.w)[1].r = Raised
             /\ Len(Calls("error", ev.w)) = 1
             /\ NoFlagSet
        /\ (Done /\ ev.op = "submit" /\ Setterless # {}) =>
             /\ exc /\ NoFlagSet /\ submit_policy = ev.pol
        /\ (Done /\ ev.op \in {"revert", "notify"} /\ ~exc /\ "error" \notin Kinds) =>
             \A w \in Setterless:
               (ev.op = "notify" => <<ev.w, w>> \in msubs) =>
                 /\ Len(Calls("dset", w)) = 1
                 /\ dval[w] = to_display(w, mval[mappings[w].model]))
  /\ [][ev'.op \in {"edit", "submit"} =>
          \A w \in Setterless:
            mval'[mappings[w].model] = mval[mappings[w].model]]_vars

C36_Witness ==
  /\ Done /\ ev.op = "submit" /\ exc
  /\ Len(keys) = 2 /\ keys[2] \in Setterless /\ keys[1] \notin Setterless
  /\ Len(ModelWrites) = 2
  /\ ModelWrites[1].r # Raised /\ ModelWrites[2].r = Raised
  /\ mval[mappings[keys[2]].model] # to_model(keys[2], dval[keys[2]])
  /\ NoFlagSet

\* C37: add_mapping calls no setter and runs no handler: while it is the
\* operation in hand nothing runs and nothing is logged but the call; its
\* step leaves every widget value and model value as it was, also where
\* they differ, and the flags of a mapping it has added are both false.
C37_NoInitialSync ==
  /\ [](ev.op = "add" => stack = <<>> /\ Len(log) = 1)
  /\ [][(ev.op = "idle" /\ ev'.op = "add") =>
          /\ dval' = dval /\ mval' = mval
          /\ log'[1].k = "added" =>
               /\ ev'.w \in DOMAIN mappings'
               /\ ~mappings'[ev'.w].widget_property_notifications_disabled
               /\ ~mappings'[ev'.w].model_property_notifications_disabled]_vars

C37_Witness ==
  /\ Done /\ ev.op = "add" /\ ~exc /\ log[1].k = "added"
  /\ mappings[ev.w].converter = "Half"
  /\ mappings[ev.w].model_property_notifier # None
  /\ dval[ev.w] # to_display(ev.w, mval[mappings[ev.w].model])
  /\ mval[mappings[ev.w].model] # to_model(ev.w, dval[ev.w])
  /\ NoFlagSet

====
